---- MODULE Spec2Model ----
(***************************************************************************)
(* A model of owrx/dsp.py: DspManager, the per-client demodulator session  *)
(* attached to a shared SdrSource.  The session owns a two-layer           *)
(* PropertyStack, a csdr.dsp controller and the list of subscriptions that *)
(* wire the stack to the controller.                                       *)
(*                                                                         *)
(* Values are integers.  None stands for Python's None / an undefined key, *)
(* 0 doubles as False (in Python False == 0) and 1 as True.                *)
(***************************************************************************)
EXTENDS Integers, Sequences, FiniteSets, TLC

\* ------------------------------------------------------------------ bounds
\* number of property mutations (setProperty + source layer writes) in a run
MaxWrites == 2

\* number of outputs the pipeline announces to receive_output in a run
MaxOutputs == 2

\* number of chunks a producer yields before its end-of-stream
MaxChunks == 2

\* ------------------------------------------------------------- value model
None == 0 - 1000000

Truthy(v) == v # None /\ v # 0

\* ------------------------------------------------------------ the key sets
\* an allow-list of the session-local layer that lets center_freq through
LocalKeys_WithCenter ==
    {"output_rate", "squelch_level", "secondary_mod", "low_cut", "high_cut",
     "offset_freq", "mod", "secondary_offset_freq", "center_freq"}

\* dsp.py 29-38: allow-list of the session-local layer (priority 0)
LocalKeys ==
    {"output_rate", "squelch_level", "secondary_mod", "low_cut", "high_cut",
     "offset_freq", "mod", "secondary_offset_freq"}

\* dsp.py 40-53: allow-list of the layer inherited from the sdr (priority 1)
InheritedKeys ==
    {"audio_compression", "fft_compression", "digimodes_fft_size",
     "csdr_dynamic_bufsize", "csdr_print_bufsizes", "csdr_through",
     "digimodes_enable", "samp_rate", "digital_voice_unvoiced_quality",
     "dmr_filter", "temporary_directory", "center_freq"}

AllKeys == LocalKeys \cup InheritedKeys

\* dsp.py 92-94: the flags copied into the controller at construction
FlagKeys == {"csdr_dynamic_bufsize", "csdr_print_bufsizes", "csdr_through"}

\* dsp.py 20-25: the protocol decoders, in dict order
Parsers == <<"meta", "wsjt_demod", "packet_demod", "pocsag_demod">>

\* dsp.py 73-88 and 111-114: the subscriptions in registration order.
\* wp = TRUE for wireProperty (called once at registration), FALSE for wire.
Wiring ==
    << [keys |-> {"audio_compression"}, cb |-> "set_audio_compression", wp |-> TRUE],
       [keys |-> {"fft_compression"}, cb |-> "set_fft_compression", wp |-> TRUE],
       [keys |-> {"digimodes_fft_size"}, cb |-> "set_secondary_fft_size", wp |-> TRUE],
       [keys |-> {"samp_rate"}, cb |-> "set_samp_rate", wp |-> TRUE],
       [keys |-> {"output_rate"}, cb |-> "set_output_rate", wp |-> TRUE],
       [keys |-> {"offset_freq"}, cb |-> "set_offset_freq", wp |-> TRUE],
       [keys |-> {"squelch_level"}, cb |-> "set_squelch_level", wp |-> TRUE],
       [keys |-> {"low_cut"}, cb |-> "set_low_cut", wp |-> TRUE],
       [keys |-> {"high_cut"}, cb |-> "set_high_cut", wp |-> TRUE],
       [keys |-> {"mod"}, cb |-> "set_demodulator", wp |-> TRUE],
       [keys |-> {"digital_voice_unvoiced_quality"}, cb |-> "set_unvoiced_quality", wp |-> TRUE],
       [keys |-> {"dmr_filter"}, cb |-> "set_dmr_filter", wp |-> TRUE],
       [keys |-> {"temporary_directory"}, cb |-> "set_temporary_directory", wp |-> TRUE],
       [keys |-> {"center_freq", "offset_freq"}, cb |-> "set_dial_freq", wp |-> FALSE],
       [keys |-> {"secondary_mod"}, cb |-> "set_secondary_mod", wp |-> TRUE],
       [keys |-> {"secondary_offset_freq"}, cb |-> "set_secondary_offset_freq", wp |-> TRUE] >>

\* a subscription list without the samp_rate subscription
BaseSubs_NoSampRate == <<1, 2, 3, 5, 6, 7, 8, 9, 10, 11, 12, 13, 14>>

\* dsp.py 73-88: the subscriptions every session registers
BaseSubs == <<1, 2, 3, 4, 5, 6, 7, 8, 9, 10, 11, 12, 13, 14>>

\* dsp.py 111-114: the subscriptions registered under digimodes_enable
DigiSubs == <<15, 16>>

\* the keys whose subscription calls one controller setter with the value
SetterKeys ==
    {"audio_compression", "fft_compression", "digimodes_fft_size", "samp_rate",
     "output_rate", "offset_freq", "squelch_level", "mod",
     "digital_voice_unvoiced_quality", "dmr_filter", "temporary_directory",
     "secondary_mod", "secondary_offset_freq"}

\* SdrSource state notifications; STARTING stands for the states that
\* onStateChange has no branch for
SdrStates == {"RUNNING", "STOPPING", "FAILED", "STARTING"}

NoState == "NONE"
NoKey == "NONE"
Self == "dsp1"

\* ------------------------------------------------------------------- state
VARIABLES
    local,          \* self.props layer 0: the session-local PropertyLayer
    source,         \* sdrSource.getProps(): the shared PropertyLayer
    dsp,            \* self.dsp: the csdr.dsp controller
    subscriptions,  \* self.subscriptions
    wired,          \* subscriptions the stack still notifies (not cancelled)
    clients,        \* the clients registered with the sdrSource
    srcState,       \* the state of the sdrSource
    pendingState,   \* a state notification on its way to onStateChange
    pendingEvt,     \* a source layer change on its way to the subscribers
    stopped,        \* stop() has completed
    writes,         \* property mutations so far
    lastCall,       \* the operation that ran last
    trace,          \* the collaborator calls the last operation made
    writers,        \* the threads inside set_low_cut / set_high_cut
    peers,          \* the other sessions built on the same sdrSource
    delivery,       \* the source layer's dispatch of one change to the stacks
    pumps,          \* the pump threads receive_output has started
    sinks,          \* what each writer (handler method, parser) has received
    stopPc,         \* the position of a thread inside stop()
    lastCtl         \* the controller call (start / stop) that ran last

\* the state outside the DspManager methods of dsp.py 120-161
aux == <<peers, delivery, pumps, sinks, stopPc, lastCtl>>

vars == <<local, source, dsp, subscriptions, wired, clients, srcState,
          pendingState, pendingEvt, stopped, writes, lastCall, trace, writers,
          peers, delivery, pumps, sinks, stopPc, lastCtl>>

Call(c, t, a) == [call |-> c, target |-> t, args |-> a]

Op(o, k, v) == [op |-> o, key |-> k, val |-> v]

Range(s) == {s[i] : i \in 1..Len(s)}

\* --------------------------------------------------------- PropertyStack
\* the value of key in a filtered layer
LayerGet(layer, allow, key) == IF key \in allow THEN layer[key] ELSE None

\* a write through a filtered layer
LayerSet(layer, allow, key, value) ==
    IF key \in allow THEN [layer EXCEPT ![key] = value] ELSE layer

\* self.props[key]: the first layer, by priority, that defines the key
Resolve(loc, src, key) ==
    IF LayerGet(loc, LocalKeys, key) # None
    THEN LayerGet(loc, LocalKeys, key)
    ELSE LayerGet(src, InheritedKeys, key)

\* the live subscriptions that watch key, in registration order
Watchers(live, key) ==
    SelectSeq(BaseSubs \o DigiSubs,
              LAMBDA id : id \in live /\ key \in Wiring[id].keys)

\* ------------------------------------------------------------- controller
NewDsp ==
    [running |-> FALSE,
     instances |-> 0,
     vals |-> [k \in SetterKeys |-> None],
     bpf |-> <<None, None>>,
     flags |-> [k \in FlagKeys |-> None]]

\* a controller whose start spawns a pipeline without looking at running
DspStart_Double(d) == [d EXCEPT !.running = TRUE, !.instances = @ + 1]

\* csdr.dsp.start: a no-op on a pipeline that is already running
DspStart(d) ==
    IF d.running THEN d ELSE [d EXCEPT !.running = TRUE, !.instances = @ + 1]

\* a stop that returns with the pipeline still up
DspStop_Deferred(d) == d

\* csdr.dsp.stop: the pipeline's processes are gone
DspStop(d) == [d EXCEPT !.running = FALSE, !.instances = 0]

get_bpf(d) == d.bpf

set_bpf(d, low, high) == [d EXCEPT !.bpf = <<low, high>>]

DspSet(d, key, value) == [d EXCEPT !.vals[key] = value]

\* derived readings of the controller: the intermediate rate follows the
\* configured sample rate, the bandwidth the selected secondary demodulator
if_samp_rate(d) == d.vals["samp_rate"]

secondary_bw(d) == IF d.vals["secondary_mod"] = None THEN 0 ELSE 30 + d.vals["secondary_mod"]

\* --------------------------------------------------------------- callbacks
Result(d, calls, ok) == [dsp |-> d, calls |-> calls, ok |-> ok]

\* dsp.py 58-61
set_low_cut(d, cut) ==
    LET bpf == get_bpf(d)
        nbpf == <<cut, bpf[2]>>
    IN  Result(set_bpf(d, nbpf[1], nbpf[2]),
               <<Call("set_bpf", "dsp", nbpf)>>, TRUE)

\* set_high_cut that applies the new edge next to the default low edge
set_high_cut_Clobber(d, cut) ==
    Result(set_bpf(d, -4000, cut), <<Call("set_bpf", "dsp", <<-4000, cut>>)>>, TRUE)

\* dsp.py 63-66
set_high_cut(d, cut) ==
    LET bpf == get_bpf(d)
        nbpf == <<bpf[1], cut>>
    IN  Result(set_bpf(d, nbpf[1], nbpf[2]),
               <<Call("set_bpf", "dsp", nbpf)>>, TRUE)

\* dsp.py 68-71: None + x is a TypeError
set_dial_freq(d, loc, src) ==
    LET center == Resolve(loc, src, "center_freq")
        offset == Resolve(loc, src, "offset_freq")
    IN  IF center = None \/ offset = None
        THEN Result(d, <<Call("raise", "TypeError", <<>>)>>, FALSE)
        ELSE Result(d, [i \in 1..Len(Parsers) |->
                           Call("setDialFrequency", Parsers[i], <<center + offset>>)],
                    TRUE)

\* set_secondary_mod without the test "mod is not None"
set_secondary_mod_Always(d, loc, src, value) ==
    LET mod == IF value = 0 THEN None ELSE value
        d2 == DspSet(d, "secondary_mod", mod)
    IN  Result(d2,
               <<Call("set_secondary_demodulator", "dsp", <<mod>>),
                 Call("write_secondary_dsp_config", "handler",
                      <<Resolve(loc, src, "digimodes_fft_size"),
                        if_samp_rate(d2), secondary_bw(d2)>>)>>,
               TRUE)

\* dsp.py 98-109
set_secondary_mod(d, loc, src, value) ==
    LET mod == IF value = 0 THEN None ELSE value
        d2 == DspSet(d, "secondary_mod", mod)
        setter == <<Call("set_secondary_demodulator", "dsp", <<mod>>)>>
    IN  IF mod # None
        THEN Result(d2,
                    setter \o
                    <<Call("write_secondary_dsp_config", "handler",
                           <<Resolve(loc, src, "digimodes_fft_size"),
                             if_samp_rate(d2), secondary_bw(d2)>>)>>,
                    TRUE)
        ELSE Result(d2, setter, TRUE)

\* the callback of subscription id, called with the changed value
Callback(id, d, loc, src, value) ==
    LET cb == Wiring[id].cb IN
    CASE cb = "set_low_cut" -> set_low_cut(d, value)
      [] cb = "set_high_cut" -> set_high_cut(d, value)
      [] cb = "set_dial_freq" -> set_dial_freq(d, loc, src)
      [] cb = "set_secondary_mod" -> set_secondary_mod(d, loc, src, value)
      [] OTHER ->
            LET key == CHOOSE k \in Wiring[id].keys : TRUE
            IN  Result(DspSet(d, key, value), <<Call(cb, "dsp", <<value>>)>>, TRUE)

\* the stack notifies the subscriptions ids in order; an exception of a
\* callback ends the notification
RECURSIVE Notify(_, _, _, _, _)
Notify(ids, d, loc, src, value) ==
    IF ids = <<>>
    THEN Result(d, <<>>, TRUE)
    ELSE LET r == Callback(Head(ids), d, loc, src, value)
         IN  IF ~r.ok
             THEN r
             ELSE LET rest == Notify(Tail(ids), r.dsp, loc, src, value)
                  IN  Result(rest.dsp, r.calls \o rest.calls, rest.ok)

\* wireProperty at registration: the callback is called with the resolved value
RECURSIVE WireAll(_, _, _, _)
WireAll(ids, d, loc, src) ==
    IF ids = <<>>
    THEN d
    ELSE LET w == Wiring[Head(ids)]
             key == CHOOSE k \in w.keys : TRUE
             d2 == IF w.wp
                   THEN Callback(Head(ids), d, loc, src, Resolve(loc, src, key)).dsp
                   ELSE d
         IN  WireAll(Tail(ids), d2, loc, src)

\* ------------------------------------------------------------ construction
EmptyLayer == [k \in AllKeys |-> None]

\* a construction that leaves out the copy of the three flags
ConstructDsp_NoFlags(src) ==
    LET d1 == WireAll(BaseSubs, NewDsp, EmptyLayer, src)
        d2 == DspSet(d1, "offset_freq", 0)
        d3 == set_bpf(d2, -4000, 4000)
    IN  IF Truthy(Resolve(EmptyLayer, src, "digimodes_enable"))
        THEN WireAll(DigiSubs, d3, EmptyLayer, src)
        ELSE d3

\* dsp.py 55-94: the controller after the subscriptions are wired and the
\* startup defaults are applied
ConstructDsp(src) ==
    LET d1 == WireAll(BaseSubs, NewDsp, EmptyLayer, src)
        d2 == DspSet(d1, "offset_freq", 0)
        d3 == set_bpf(d2, -4000, 4000)
        d4 == [d3 EXCEPT !.flags = [k \in FlagKeys |-> Resolve(EmptyLayer, src, k)]]
    IN  IF Truthy(Resolve(EmptyLayer, src, "digimodes_enable"))
        THEN WireAll(DigiSubs, d4, EmptyLayer, src)
        ELSE d4

\* a construction that registers the digimodes subscriptions whatever the flag
ConstructSubs_Always(src) == BaseSubs \o DigiSubs

\* dsp.py 73-88, 96, 111-114
ConstructSubs(src) ==
    IF Truthy(Resolve(EmptyLayer, src, "digimodes_enable"))
    THEN BaseSubs \o DigiSubs
    ELSE BaseSubs

\* the two keys that share the controller's filter band
EdgeKeys == {"low_cut", "high_cut"}

\* a thread that is not inside set_low_cut / set_high_cut
IdleWriter == [pc |-> "idle", cut |-> None, bpf |-> <<None, None>>]

\* the source layers a session may be constructed on
InitSources ==
    {[k \in AllKeys |->
         CASE k = "digimodes_enable" -> e
           [] k = "center_freq" -> c
           [] k \in InheritedKeys -> 1
           [] k = "squelch_level" -> 2
           [] OTHER -> None] : e \in {0, 1}, c \in {None, 10}}

\* the other DspManager sessions of the same sdrSource (dsp.py 116: every
\* session registers itself as a client of the source it was given)
Peers == {"dsp2", "dsp3"}

\* dsp.py 17-118: a session as __init__ leaves it, for a peer: its own
\* local layer, its own controller and its own subscriptions
NewPeer(src) ==
    [local |-> EmptyLayer,
     dsp   |-> ConstructDsp(src),
     wired |-> Range(ConstructSubs(src))]

\* no change of the source layer has been dispatched: queue holds the
\* sessions still to notify, log the outcome at each session notified
NoDelivery ==
    [queue |-> <<>>, log |-> <<>>, key |-> NoKey, value |-> None, old |-> None]

\* dsp.py 126-133: the names receive_output knows
Channels ==
    {"audio", "smeter", "secondary_fft", "secondary_demod"} \cup Range(Parsers)

\* a secondary_fft stream sent to the demodulator text writer
WriterTable_Crossed ==
    [t \in Channels |->
        CASE t = "audio" -> "handler.write_dsp_data"
          [] t = "smeter" -> "handler.write_s_meter_level"
          [] t = "secondary_fft" -> "handler.write_secondary_demod"
          [] t = "secondary_demod" -> "handler.write_secondary_demod"
          [] t = "meta" -> "meta.parse"
          [] t = "wsjt_demod" -> "wsjt_demod.parse"
          [] t = "packet_demod" -> "packet_demod.parse"
          [] t = "pocsag_demod" -> "pocsag_demod.parse"]

\* dsp.py 126-133: writers = {...}; for demod, parser in self.parsers.items():
\* writers[demod] = parser.parse
WriterTable ==
    [t \in Channels |->
        CASE t = "audio" -> "handler.write_dsp_data"
          [] t = "smeter" -> "handler.write_s_meter_level"
          [] t = "secondary_fft" -> "handler.write_secondary_fft"
          [] t = "secondary_demod" -> "handler.write_secondary_demod"
          [] t = "meta" -> "meta.parse"
          [] t = "wsjt_demod" -> "wsjt_demod.parse"
          [] t = "packet_demod" -> "packet_demod.parse"
          [] t = "pocsag_demod" -> "pocsag_demod.parse"]

\* the handler's four writers and the parse method of every parser
Sinks ==
    {"handler.write_dsp_data", "handler.write_s_meter_level",
     "handler.write_secondary_fft", "handler.write_secondary_demod",
     "meta.parse", "wsjt_demod.parse", "packet_demod.parse",
     "pocsag_demod.parse"}

\* the names the pipeline may hand to receive_output: the registered ones
\* and one the table does not hold
OutputNames == Channels \cup {"other_output"}

\* writers[t] found nothing
NoSink == "NONE"

\* no pump thread has been started for a name
NoPump == [state |-> "none", data |-> <<>>, pos |-> 0, sink |-> NoSink]

Init ==
    /\ source \in InitSources
    /\ local = EmptyLayer
    /\ dsp = ConstructDsp(source)
    /\ subscriptions = ConstructSubs(source)
    /\ wired = Range(ConstructSubs(source))
    /\ clients = {Self}
    /\ srcState = "STARTING"
    /\ pendingState = NoState
    /\ pendingEvt = NoKey
    /\ stopped = FALSE
    /\ writes = 0
    /\ lastCall = Op("__init__", "", 0)
    /\ trace = <<>>
    /\ writers = [k \in EdgeKeys |-> IdleWriter]
    /\ peers = [p \in Peers |-> NewPeer(source)]
    /\ delivery = NoDelivery
    /\ pumps = [t \in OutputNames |-> NoPump]
    /\ sinks = [w \in Sinks |-> <<>>]
    /\ stopPc = "idle"
    /\ lastCtl = "none"

\* ------------------------------------------------------------- operations
\* SdrSource.isAvailable()
isAvailable == srcState = "RUNNING"

\* start without the look at the source
start_Unguarded ==
    /\ lastCall' = Op("start", "", 0)
    /\ dsp' = DspStart(dsp)
    /\ trace' = <<Call("start", "dsp", <<>>)>>
    /\ UNCHANGED <<local, source, subscriptions, wired, clients, srcState,
                   pendingState, pendingEvt, stopped, writes, writers>>

\* dsp.py 120-122
start ==
    /\ lastCall' = Op("start", "", 0)
    /\ IF isAvailable
       THEN /\ dsp' = DspStart(dsp)
            /\ trace' = <<Call("start", "dsp", <<>>)>>
       ELSE /\ dsp' = dsp
            /\ trace' = <<>>
    /\ UNCHANGED <<local, source, subscriptions, wired, clients, srcState,
                   pendingState, pendingEvt, stopped, writes, writers>>

\* stop() that clears the list without cancelling the subscriptions
CancelAll_ClearOnly(live, subs) == live

\* dsp.py 142-144: every subscription of the list is cancelled
CancelAll(live, subs) == live \ Range(subs)

\* dsp.py 139-144
stop ==
    /\ lastCall' = Op("stop", "", 0)
    /\ dsp' = DspStop(dsp)
    /\ clients' = clients \ {Self}
    /\ wired' = CancelAll(wired, subscriptions)
    /\ subscriptions' = <<>>
    /\ stopped' = TRUE
    /\ trace' = <<Call("stop", "dsp", <<>>), Call("removeClient", "sdrSource", <<>>)>>
                 \o [i \in 1..Len(subscriptions) |-> Call("cancel", "sub", <<subscriptions[i]>>)]
    /\ UNCHANGED <<local, source, srcState, pendingState, pendingEvt, writes, writers>>

\* the stack's reaction to a write that changed the resolved value of key:
\* the live subscriptions watching key are notified with the resolved value
Changed(d, live, oldLoc, oldSrc, loc, src, key) ==
    IF Resolve(loc, src, key) # Resolve(oldLoc, oldSrc, key)
    THEN Notify(Watchers(live, key), d, loc, src, Resolve(loc, src, key))
    ELSE Result(d, <<>>, TRUE)

\* the (key, value) pairs a client sends to setProperty
SetInputs ==
    ({"low_cut"} \X {-3000, -2000}) \cup ({"high_cut"} \X {3000, 3500})
    \cup ({"offset_freq"} \X {1, 2}) \cup ({"secondary_mod"} \X {0, 1, 2})
    \cup ({"secondary_offset_freq", "squelch_level", "mod"} \X {1})
    \cup ({"center_freq"} \X {5})

\* the (key, value) pairs the sdr writes into its own layer
SourceInputs ==
    ({"center_freq"} \X {10, 20}) \cup ({"digimodes_enable"} \X {1})
    \cup ({"digimodes_fft_size", "samp_rate"} \X {2})
    \cup ({"csdr_through"} \X {0}) \cup ({"squelch_level"} \X {3})

\* setProperty that also writes the value into the layer of the source
setProperty_Shared(prop, value) ==
    LET loc == LayerSet(local, LocalKeys, prop, value)
        r == Changed(dsp, wired, local, source, loc, source, prop)
    IN  /\ writes < MaxWrites
        /\ writes' = writes + 1
        /\ lastCall' = Op("setProperty", prop, value)
        /\ local' = loc
        /\ source' = [source EXCEPT ![prop] = value]
        /\ dsp' = r.dsp
        /\ trace' = r.calls
        /\ UNCHANGED <<subscriptions, wired, clients, srcState,
                       pendingState, pendingEvt, stopped, writers>>

\* dsp.py 146-147
setProperty(prop, value) ==
    LET loc == LayerSet(local, LocalKeys, prop, value)
        r == Changed(dsp, wired, local, source, loc, source, prop)
    IN  /\ writes < MaxWrites
        /\ writes' = writes + 1
        /\ lastCall' = Op("setProperty", prop, value)
        /\ local' = loc
        /\ dsp' = r.dsp
        /\ trace' = r.calls
        /\ UNCHANGED <<source, subscriptions, wired, clients, srcState,
                       pendingState, pendingEvt, stopped, writers>>

\* the sdr writes a key of its own layer; the change is then on its way to
\* the subscribers of the stacks that inherit the layer
SourceSet(key, value) ==
    LET src == [source EXCEPT ![key] = value]
    IN  /\ writes < MaxWrites
        /\ pendingEvt = NoKey
        /\ writes' = writes + 1
        /\ lastCall' = Op("sourceSet", key, value)
        /\ source' = src
        /\ pendingEvt' = IF /\ Resolve(local, src, key) # Resolve(local, source, key)
                            /\ Watchers(wired, key) # <<>>
                         THEN key ELSE NoKey
        /\ trace' = <<>>
        /\ UNCHANGED <<local, dsp, subscriptions, wired, clients, srcState,
                       pendingState, stopped, writers>>

\* the pending change reaches the subscriptions that are still live
Dispatch ==
    LET r == Notify(Watchers(wired, pendingEvt), dsp, local, source,
                    Resolve(local, source, pendingEvt))
    IN  /\ pendingEvt # NoKey
        /\ pendingEvt' = NoKey
        /\ lastCall' = Op("dispatch", pendingEvt, Resolve(local, source, pendingEvt))
        /\ dsp' = r.dsp
        /\ trace' = r.calls
        /\ UNCHANGED <<local, source, subscriptions, wired, clients, srcState,
                       pendingState, stopped, writes, writers>>

\* the sdr changes state and notifies the clients registered at that moment
SourceStateChange(state) ==
    /\ pendingState = NoState
    /\ srcState' = state
    /\ pendingState' = IF Self \in clients THEN state ELSE NoState
    /\ lastCall' = Op("sourceState", state, 0)
    /\ trace' = <<>>
    /\ UNCHANGED <<local, source, dsp, subscriptions, wired, clients,
                   pendingEvt, stopped, writes, writers>>

\* StateChangeDsp without the restart on RUNNING
StateChangeDsp_NoRestart(d, state) ==
    CASE state = "STOPPING" -> Result(DspStop(d), <<Call("stop", "dsp", <<>>)>>, TRUE)
      [] state = "FAILED" -> Result(DspStop(d), <<Call("stop", "dsp", <<>>)>>, TRUE)
      [] OTHER -> Result(d, <<>>, TRUE)

\* dsp.py 152-161: what the notification does to the controller
StateChangeDsp(d, state) ==
    CASE state = "RUNNING" -> Result(DspStart(d), <<Call("start", "dsp", <<>>)>>, TRUE)
      [] state = "STOPPING" -> Result(DspStop(d), <<Call("stop", "dsp", <<>>)>>, TRUE)
      [] state = "FAILED" -> Result(DspStop(d), <<Call("stop", "dsp", <<>>)>>, TRUE)
      [] OTHER -> Result(d, <<>>, TRUE)

\* dsp.py 152-161
onStateChange ==
    /\ pendingState # NoState
    /\ LET r == StateChangeDsp(dsp, pendingState)
       IN  /\ dsp' = r.dsp
           /\ trace' = r.calls
    /\ pendingState' = NoState
    /\ lastCall' = Op("onStateChange", pendingState, 0)
    /\ UNCHANGED <<local, source, subscriptions, wired, clients, srcState,
                   pendingEvt, stopped, writes, writers>>

Next ==
    \/ start /\ UNCHANGED aux
    \/ stop /\ UNCHANGED aux
    \/ \E in \in SetInputs : setProperty(in[1], in[2]) /\ UNCHANGED aux
    \/ \E in \in SourceInputs : SourceSet(in[1], in[2]) /\ UNCHANGED aux
    \/ Dispatch /\ UNCHANGED aux
    \/ \E s \in SdrStates : SourceStateChange(s) /\ UNCHANGED aux
    \/ onStateChange /\ UNCHANGED aux

Spec == Init /\ [][Next]_vars

\* ------------------------------------------- concurrent writers of the band
\* Nothing in setProperty or in set_low_cut / set_high_cut takes a lock, so
\* a thread setting low_cut and a thread setting high_cut interleave at the
\* calls on the controller.

\* dsp.py 146-147: the write of an edge key; on a change the thread enters
\* the callback of the key
BeginSet(key, value) ==
    LET loc == LayerSet(local, LocalKeys, key, value)
        fires == /\ Resolve(loc, source, key) # Resolve(local, source, key)
                 /\ Watchers(wired, key) # <<>>
    IN  /\ writers[key].pc = "idle"
        /\ writes < MaxWrites
        /\ writes' = writes + 1
        /\ local' = loc
        /\ lastCall' = Op("setProperty", key, value)
        /\ trace' = <<>>
        /\ writers' = IF fires
                      THEN [writers EXCEPT ![key] =
                               [pc |-> "read", cut |-> value, bpf |-> <<None, None>>]]
                      ELSE writers
        /\ UNCHANGED <<source, dsp, subscriptions, wired, clients, srcState,
                       pendingState, pendingEvt, stopped>>

\* dsp.py 59 / 64: bpf = self.dsp.get_bpf()
ReadBand(key) ==
    /\ writers[key].pc = "read"
    /\ writers' = [writers EXCEPT ![key].pc = "apply", ![key].bpf = get_bpf(dsp)]
    /\ lastCall' = Op("get_bpf", key, writers[key].cut)
    /\ trace' = <<Call("get_bpf", "dsp", <<>>)>>
    /\ UNCHANGED <<local, source, dsp, subscriptions, wired, clients, srcState,
                   pendingState, pendingEvt, stopped, writes>>

\* dsp.py 60-61 / 65-66: bpf[i] = cut; self.dsp.set_bpf(*bpf)
ApplyBand(key) ==
    LET bpf == writers[key].bpf
        cut == writers[key].cut
        nbpf == IF key = "low_cut" THEN <<cut, bpf[2]>> ELSE <<bpf[1], cut>>
    IN  /\ writers[key].pc = "apply"
        /\ dsp' = set_bpf(dsp, nbpf[1], nbpf[2])
        /\ writers' = [writers EXCEPT ![key] = IdleWriter]
        /\ lastCall' = Op("set_bpf", key, cut)
        /\ trace' = <<Call("set_bpf", "dsp", nbpf)>>
        /\ UNCHANGED <<local, source, subscriptions, wired, clients, srcState,
                       pendingState, pendingEvt, stopped, writes>>

\* the values the two threads set
EdgeInputs ==
    ({"low_cut"} \X {-3000, -2000}) \cup ({"high_cut"} \X {3000, 3500})

NextRMW ==
    \/ \E in \in EdgeInputs : BeginSet(in[1], in[2]) /\ UNCHANGED aux
    \/ \E k \in EdgeKeys : ReadBand(k) /\ UNCHANGED aux
    \/ \E k \in EdgeKeys : ApplyBand(k) /\ UNCHANGED aux

SpecRMW == Init /\ [][NextRMW]_vars

\* --------------------------------------- stop() against a notification
\* stop() runs on the client's thread and onStateChange on the source's
\* thread. dsp.py takes no lock, so the notification interleaves with stop()
\* between any two of its calls (lines 140, 141, 142-144).

\* the controller call that ran last once calls have been made after prev
CtlAfter(prev, calls) ==
    LET c == SelectSeq(calls, LAMBDA x : x.target = "dsp" /\ x.call \in {"start", "stop"})
    IN  IF c = <<>> THEN prev ELSE c[Len(c)].call

\* dsp.py 140: self.dsp.stop()
RaceStopDsp ==
    /\ stopPc = "idle"
    /\ dsp' = DspStop(dsp)
    /\ trace' = <<Call("stop", "dsp", <<>>)>>
    /\ lastCtl' = CtlAfter(lastCtl, trace')
    /\ lastCall' = Op("stop", "dsp.stop", 0)
    /\ stopPc' = "removeClient"
    /\ UNCHANGED <<local, source, subscriptions, wired, clients, srcState,
                   pendingState, pendingEvt, stopped, writes, writers,
                   peers, delivery, pumps, sinks>>

\* dsp.py 141: self.sdrSource.removeClient(self)
RaceRemoveClient ==
    /\ stopPc = "removeClient"
    /\ clients' = clients \ {Self}
    /\ trace' = <<Call("removeClient", "sdrSource", <<>>)>>
    /\ lastCall' = Op("stop", "removeClient", 0)
    /\ stopPc' = "cancel"
    /\ UNCHANGED <<local, source, dsp, subscriptions, wired, srcState,
                   pendingState, pendingEvt, stopped, writes, writers,
                   peers, delivery, pumps, sinks, lastCtl>>

\* dsp.py 142-144: the subscriptions are cancelled and the list cleared
RaceCancel ==
    /\ stopPc = "cancel"
    /\ wired' = CancelAll(wired, subscriptions)
    /\ subscriptions' = <<>>
    /\ stopped' = TRUE
    /\ trace' = [i \in 1..Len(subscriptions) |-> Call("cancel", "sub", <<subscriptions[i]>>)]
    /\ lastCall' = Op("stop", "cancel", 0)
    /\ stopPc' = "done"
    /\ UNCHANGED <<local, source, dsp, clients, srcState,
                   pendingState, pendingEvt, writes, writers,
                   peers, delivery, pumps, sinks, lastCtl>>

\* dsp.py 152-161 on the source's thread
RaceNotify ==
    /\ onStateChange
    /\ lastCtl' = CtlAfter(lastCtl, trace')
    /\ UNCHANGED <<peers, delivery, pumps, sinks, stopPc>>

\* dsp.py 120-122 on the client's thread, before it enters stop()
RaceStart ==
    /\ stopPc = "idle"
    /\ start
    /\ lastCtl' = CtlAfter(lastCtl, trace')
    /\ UNCHANGED <<peers, delivery, pumps, sinks, stopPc>>

NextRace ==
    \/ RaceStart
    \/ RaceStopDsp
    \/ RaceRemoveClient
    \/ RaceCancel
    \/ \E s \in SdrStates : SourceStateChange(s) /\ UNCHANGED aux
    \/ RaceNotify

SpecRace == Init /\ [][NextRace]_vars

\* ------------------------------------------ several sessions, one source
\* Every session stacks its own local layer on the layer of the source
\* (dsp.py 27-53); a write of the sdr into its layer is dispatched by the
\* layer to the stack of every session, one session after the other.
Sessions == {Self} \cup Peers

\* the orders in which the layer of the source may hold the stacks
Orders ==
    {o \in [1..Cardinality(Sessions) -> Sessions] :
        \A s \in Sessions : \E i \in DOMAIN o : o[i] = s}

LocalOf(s) == IF s = Self THEN local ELSE peers[s].local

DspOf(s) == IF s = Self THEN dsp ELSE peers[s].dsp

WiredOf(s) == IF s = Self THEN wired ELSE peers[s].wired

\* the (key, value) pairs the client of a peer sends to its setProperty
PeerInputs == {<<"offset_freq", 1>>}

\* dsp.py 146-147 on the session p
PeerSetProperty(p, prop, value) ==
    LET loc == LayerSet(peers[p].local, LocalKeys, prop, value)
        r == Changed(peers[p].dsp, peers[p].wired, peers[p].local, source,
                     loc, source, prop)
    IN  /\ peers' = [peers EXCEPT ![p].local = loc, ![p].dsp = r.dsp]
        /\ lastCall' = Op("peer.setProperty", prop, value)
        /\ trace' = r.calls
        /\ UNCHANGED <<local, source, dsp, subscriptions, wired, clients,
                       srcState, pendingState, pendingEvt, stopped, writes,
                       writers, delivery, pumps, sinks, stopPc, lastCtl>>

\* the sdr writes a key of its layer; a change of the value is dispatched to
\* the stacks of all sessions
SharedSet(key, value) ==
    /\ writes < MaxWrites
    /\ delivery.queue = <<>>
    /\ writes' = writes + 1
    /\ source' = [source EXCEPT ![key] = value]
    /\ lastCall' = Op("sourceSet", key, value)
    /\ trace' = <<>>
    /\ IF source[key] # value
       THEN /\ \E o \in Orders :
                 delivery' = [queue |-> o, log |-> <<>>, key |-> key,
                              value |-> value, old |-> source[key]]
            /\ pendingEvt' = key
       ELSE /\ delivery' = NoDelivery
            /\ pendingEvt' = NoKey
    /\ UNCHANGED <<local, dsp, subscriptions, wired, clients, srcState,
                   pendingState, stopped, writers, peers, pumps, sinks,
                   stopPc, lastCtl>>

\* a dispatch that gives up at the first session whose callback raised
DeliverRest_Abort(rest, ok) == IF ok THEN rest ELSE <<>>

\* the sessions the layer still notifies after one session's callbacks
\* returned (ok) or raised (~ok)
DeliverRest(rest, ok) == rest

\* the change reaches the stack of the next session, which notifies its own
\* live subscriptions
Deliver ==
    /\ delivery.queue # <<>>
    /\ LET s == Head(delivery.queue)
           oldSrc == [source EXCEPT ![delivery.key] = delivery.old]
           r == Changed(DspOf(s), WiredOf(s), LocalOf(s), oldSrc,
                        LocalOf(s), source, delivery.key)
           rest == DeliverRest(Tail(delivery.queue), r.ok)
       IN  /\ IF s = Self
              THEN dsp' = r.dsp /\ peers' = peers
              ELSE dsp' = dsp /\ peers' = [peers EXCEPT ![s].dsp = r.dsp]
           /\ delivery' = [delivery EXCEPT
                              !.queue = rest,
                              !.log = Append(@, [session |-> s, ok |-> r.ok,
                                                 calls |-> r.calls])]
           /\ pendingEvt' = IF rest = <<>> THEN NoKey ELSE pendingEvt
           /\ trace' = r.calls
           /\ lastCall' = Op("deliver", s, 0)
    /\ UNCHANGED <<local, source, subscriptions, wired, clients, srcState,
                   pendingState, stopped, writes, writers, pumps, sinks,
                   stopPc, lastCtl>>

\* the (key, value) pairs the client of this session sends while peers are
\* attached: a key of the local layer with a setter, one with a callback of
\* dsp.py, and a key of the inherited layer
OwnInputs ==
    {<<"offset_freq", 1>>, <<"low_cut", 0 - 3000>>, <<"center_freq", 5>>}

\* the (key, value) pairs the sdr writes: a key whose callback can raise and
\* a key wired to a controller setter
SharedInputs == {<<"center_freq", 10>>, <<"center_freq", 20>>, <<"samp_rate", 2>>}

NextShared ==
    \/ \E in \in OwnInputs : setProperty(in[1], in[2]) /\ UNCHANGED aux
    \/ \E p \in Peers, in \in PeerInputs : PeerSetProperty(p, in[1], in[2])
    \/ \E in \in SharedInputs : SharedSet(in[1], in[2])
    \/ Deliver

SpecShared == Init /\ [][NextShared]_vars

\* ------------------------------------------------------------ the outputs
\* the chunks read_fn returns for name t before it returns end-of-stream
Produce(t, n) == [i \in 1..n |-> <<t, i>>]

\* a lookup that falls back to the audio writer for a name it does not hold
LookupWriter_Default(t) ==
    IF t \in DOMAIN WriterTable THEN WriterTable[t] ELSE "handler.write_dsp_data"

\* dsp.py 135: write = writers[t], a KeyError for a name the table lacks
LookupWriter(t) ==
    IF t \in DOMAIN WriterTable THEN WriterTable[t] ELSE NoSink

\* dsp.py 124-137: the writer is looked up and the pump thread started; the
\* call returns without reading from read_fn
receive_output(t, n) ==
    /\ pumps[t].state = "none"
    /\ Cardinality({c \in OutputNames : pumps[c].state # "none"}) < MaxOutputs
    /\ lastCall' = Op("receive_output", t, n)
    /\ IF LookupWriter(t) = NoSink
       THEN /\ trace' = <<Call("raise", "KeyError", <<t>>)>>
            /\ pumps' = pumps
       ELSE /\ trace' = <<Call("start", "Thread", <<t, LookupWriter(t)>>)>>
            /\ pumps' = [pumps EXCEPT ![t] =
                    [state |-> "running", data |-> Produce(t, n), pos |-> 0,
                     sink |-> LookupWriter(t)]]
    /\ UNCHANGED <<local, source, dsp, subscriptions, wired, clients, srcState,
                   pendingState, pendingEvt, stopped, writes, writers,
                   peers, delivery, sinks, stopPc, lastCtl>>

\* csdr.output.pump, one turn of the copy loop of the thread of name t:
\* data = read(); end-of-stream ends the loop, anything else goes to write
PumpCopy(t) ==
    /\ pumps[t].state = "running"
    /\ lastCall' = Op("pump", t, pumps[t].pos)
    /\ IF pumps[t].pos < Len(pumps[t].data)
       THEN LET chunk == pumps[t].data[pumps[t].pos + 1]
            IN  /\ sinks' = [sinks EXCEPT ![pumps[t].sink] = Append(@, chunk)]
                /\ pumps' = [pumps EXCEPT ![t].pos = @ + 1]
                /\ trace' = <<Call("write", pumps[t].sink, chunk)>>
       ELSE /\ sinks' = sinks
            /\ pumps' = [pumps EXCEPT ![t].state = "ended"]
            /\ trace' = <<>>
    /\ UNCHANGED <<local, source, dsp, subscriptions, wired, clients, srcState,
                   pendingState, pendingEvt, stopped, writes, writers,
                   peers, delivery, stopPc, lastCtl>>

\* the producers announced: one already at end-of-stream, one with chunks
StreamLengths == {0, MaxChunks}

NextOutput ==
    \/ \E t \in OutputNames, n \in StreamLengths : receive_output(t, n)
    \/ \E t \in OutputNames : PumpCopy(t)

SpecOutput == Init /\ [][NextOutput]_vars

\* ------------------------------------------------------------- type check
TypeOK ==
    /\ dsp.running \in BOOLEAN
    /\ Range(subscriptions) \subseteq 1..Len(Wiring)
    /\ wired \subseteq 1..Len(Wiring)
    /\ clients \subseteq {Self}
    /\ srcState \in SdrStates
    /\ pendingState \in SdrStates \cup {NoState}
    /\ pendingEvt \in InheritedKeys \cup {NoKey}
    /\ stopped \in BOOLEAN
    /\ writes \in 0..MaxWrites
    /\ \A k \in EdgeKeys : writers[k].pc \in {"idle", "read", "apply"}
    /\ DOMAIN peers = Peers
    /\ \A p \in Peers : peers[p].wired \subseteq 1..Len(Wiring)
    /\ Range(delivery.queue) \subseteq Sessions
    /\ delivery.key \in InheritedKeys \cup {NoKey}
    /\ DOMAIN pumps = OutputNames
    /\ \A t \in OutputNames :
          /\ pumps[t].state \in {"none", "running", "ended"}
          /\ pumps[t].pos \in 0..Len(pumps[t].data)
          /\ pumps[t].sink \in Sinks \cup {NoSink}
    /\ DOMAIN sinks = Sinks
    /\ stopPc \in {"idle", "removeClient", "cancel", "done"}
    /\ lastCtl \in {"none", "start", "stop"}

\* ------------------------------------------------------------------ claims
\* the calls named name among the calls tr
CallsOf(tr, name) == SelectSeq(tr, LAMBDA c : c.call = name)

\* the calls of tr that come from a subscription callback
CallbackCalls(tr) ==
    SelectSeq(tr, LAMBDA c : c.call \notin {"start", "stop", "removeClient", "cancel"})

\* C1: stop() is idempotent: a stop() cancels every subscription and raises
\* no error, and a stop() that directly follows a stop() does not invoke the
\* pipeline's stop operation again.
C1_StopIdempotent ==
    [][stop =>
         /\ wired' = {}
         /\ subscriptions' = <<>>
         /\ CallsOf(trace', "raise") = <<>>
         /\ (lastCall.op = "stop" =>
                \A i \in 1..Len(trace') :
                    ~(trace'[i].call = "stop" /\ trace'[i].target = "dsp"))]_vars

\* C2: STOPPED is terminal: once the client-driven stop() has completed the
\* pipeline is never running again, whatever start() or onStateChange follows.
C2_StoppedTerminal == stopped => ~dsp.running

\* C3: on a session the client has not stopped, onStateChange(STOPPING) and
\* onStateChange(FAILED) leave the pipeline stopped and the subscription list,
\* the live subscriptions and the client registration unchanged, a
\* onStateChange(RUNNING) leaves the pipeline running and registers nothing,
\* and a setProperty still reaches the controller setter of its key.
C3_SourceCycle ==
    [][~stopped =>
         /\ onStateChange =>
              /\ subscriptions' = subscriptions
              /\ wired' = wired
              /\ wired' = Range(subscriptions')
              /\ clients' = clients
              /\ Self \in clients'
              /\ (pendingState \in {"STOPPING", "FAILED"} => ~dsp'.running)
              /\ (pendingState = "RUNNING" => dsp'.running)
              /\ CallbackCalls(trace') = <<>>
         /\ (lastCall'.op = "setProperty"
               /\ lastCall'.key \in {"squelch_level", "mod", "offset_freq"}) =>
              dsp'.vals[lastCall'.key] = lastCall'.val]_vars

\* C3 witness: a FAILED notification has stopped a running pipeline of a
\* session that keeps all its subscriptions and its registration.
C3_Witness ==
    /\ lastCall = Op("onStateChange", "FAILED", 0)
    /\ trace = <<Call("stop", "dsp", <<>>)>>
    /\ ~dsp.running
    /\ ~stopped
    /\ Len(subscriptions) = Len(BaseSubs) + Len(DigiSubs)
    /\ wired = Range(subscriptions)
    /\ Self \in clients

\* C4: start() invokes the pipeline's start exactly when the source is
\* available; with the source unavailable it raises nothing, calls nothing
\* and leaves the controller as it was (a pipeline that was not running is
\* still not running), and a RUNNING notification delivered to onStateChange
\* then starts the pipeline.
C4_StartDeferred ==
    [][/\ (start /\ ~isAvailable) => (dsp' = dsp /\ trace' = <<>>)
       /\ (start /\ isAvailable) =>
             (dsp'.running /\ trace' = <<Call("start", "dsp", <<>>)>>)
       /\ (onStateChange /\ pendingState = "RUNNING") =>
             (dsp'.running /\ trace' = <<Call("start", "dsp", <<>>)>>)]_vars

\* C4 witness: start() has returned on an unavailable source without a call,
\* the pipeline is not running and the RUNNING notification is on its way.
C4_Witness ==
    /\ lastCall.op = "start"
    /\ trace = <<>>
    /\ ~dsp.running
    /\ srcState # "RUNNING"
    /\ ~stopped

\* the filter band edge that follows from the local layer: the edge last set
\* through setProperty, the startup default when it was never set
EdgeOf(key, default) == IF local[key] = None THEN default ELSE local[key]

\* C5: on a session that has not been stopped, after any sequence of
\* setProperty calls made one at a time the controller's filter band is
\* (last low_cut set, last high_cut set), an edge never set keeping its
\* startup default -4000 / 4000.
C5_FilterBand ==
    ~stopped => dsp.bpf = <<EdgeOf("low_cut", -4000), EdgeOf("high_cut", 4000)>>

\* C5 witness: low_cut was set to -3000 and then high_cut to 3500.
C5_Witness ==
    /\ ~stopped
    /\ lastCall = Op("setProperty", "high_cut", 3500)
    /\ local["low_cut"] = -3000
    /\ dsp.bpf = <<-3000, 3500>>

\* C6: the read-modify-write of the filter band is atomic with respect to
\* the other writer: whenever no writer is inside set_low_cut / set_high_cut,
\* the band holds the low edge and the high edge that were set last.
C6_AtomicBand ==
    (\A k \in EdgeKeys : writers[k].pc = "idle") =>
        dsp.bpf = <<EdgeOf("low_cut", -4000), EdgeOf("high_cut", 4000)>>

\* the secondary-config announcements among the calls tr
Announcements(tr) == CallsOf(tr, "write_secondary_dsp_config")

\* C7: on a session built with digimodes_enable, a setProperty of
\* secondary_mod from disabled (unset or false) to a mode sends exactly one
\* secondary-config announcement to the handler, carrying the resolved
\* digimodes_fft_size and the controller's if_samp_rate() and secondary_bw()
\* of that moment; a setProperty of secondary_mod to false selects no
\* secondary demodulator and sends no announcement.
C7_SecondaryConfig ==
    [][(lastCall'.op = "setProperty" /\ lastCall'.key = "secondary_mod" /\ 15 \in wired) =>
         LET old == Resolve(local, source, "secondary_mod")
             new == lastCall'.val
             anns == Announcements(trace')
         IN  /\ new = 0 =>
                  (anns = <<>> /\ dsp'.vals["secondary_mod"] = None)
             /\ (new # 0 /\ old \in {None, 0}) =>
                  /\ Len(anns) = 1
                  /\ anns[1].target = "handler"
                  /\ anns[1].args = <<Resolve(local', source', "digimodes_fft_size"),
                                      if_samp_rate(dsp'), secondary_bw(dsp')>>
                  /\ dsp'.vals["secondary_mod"] = new]_vars

\* C7 witness: secondary_mod was set to mode 1 after the sdr changed
\* digimodes_fft_size to 2, and one announcement carrying 2 went out.
C7_Witness ==
    /\ lastCall = Op("setProperty", "secondary_mod", 1)
    /\ Len(Announcements(trace)) = 1
    /\ Announcements(trace)[1].args[1] = 2

\* C8 as stated: a key of the inherited layer resolves to the inherited value
\* as long as the local layer does not hold it, and to the value given to
\* setProperty once setProperty has set it.
C8_OverrideBySetProperty ==
    [][/\ \A k \in InheritedKeys :
            local[k] = None => Resolve(local, source, k) = source[k]
       /\ (lastCall'.op = "setProperty" /\ lastCall'.key \in InheritedKeys) =>
            Resolve(local', source', lastCall'.key) = lastCall'.val]_vars

\* C8 amended: every key of the inherited allow-list resolves to the value of
\* the source layer, also after a setProperty of that key (the allow-list of
\* the local layer excludes it); every key of the local allow-list resolves
\* to the value last given to setProperty, whatever the source layer holds.
C8_LayerResolution ==
    [][/\ \A k \in InheritedKeys : Resolve(local', source', k) = source'[k]
       /\ \A k \in LocalKeys : Resolve(local', source', k) = local'[k]
       /\ lastCall'.op = "setProperty" =>
            IF lastCall'.key \in LocalKeys
            THEN Resolve(local', source', lastCall'.key) = lastCall'.val
            ELSE Resolve(local', source', lastCall'.key) = source[lastCall'.key]]_vars

\* C8 witness: setProperty("center_freq", 5) has run and center_freq still
\* resolves to the 10 of the source layer.
C8_Witness ==
    /\ lastCall = Op("setProperty", "center_freq", 5)
    /\ source["center_freq"] = 10
    /\ Resolve(local, source, "center_freq") = 10

\* C9: stop() leaves the subscription list empty and every subscription
\* cancelled, and from then on no setProperty, no source layer change and no
\* change that was on its way when stop() ran calls a controller setter,
\* setDialFrequency or the secondary-config announcement.
C9_CancelledSilent ==
    [][/\ stop => (subscriptions' = <<>> /\ wired' = {})
       /\ stopped =>
            /\ subscriptions' = <<>>
            /\ wired' = {}
            /\ CallbackCalls(trace') = <<>>
            /\ dsp'.vals = dsp.vals
            /\ dsp'.bpf = dsp.bpf]_vars

\* C9 witness: a change of the source layer that was on its way when stop()
\* ran has been delivered after it, and nothing was called.
C9_Witness ==
    /\ stopped
    /\ lastCall.op = "dispatch"
    /\ trace = <<>>

\* C10: on every change of center_freq or offset_freq seen by a session with
\* live subscriptions, every protocol decoder receives setDialFrequency
\* exactly once, with resolved center_freq + resolved offset_freq.
C10_DialForwarding ==
    [][(/\ 14 \in wired
        /\ \/ lastCall'.op = "dispatch" /\ lastCall'.key = "center_freq"
           \/ /\ lastCall'.op = "setProperty" /\ lastCall'.key = "offset_freq"
              /\ local'["offset_freq"] # local["offset_freq"]) =>
         LET freq == Resolve(local', source', "center_freq")
                     + Resolve(local', source', "offset_freq")
             dials == CallsOf(trace', "setDialFrequency")
         IN  /\ \A i \in 1..Len(Parsers) :
                   Len(SelectSeq(dials, LAMBDA c : c.target = Parsers[i])) = 1
             /\ \A j \in 1..Len(dials) : dials[j].args = <<freq>>]_vars

\* C11: subscribers tolerate an undefined key: no subscription callback of
\* the session ends in an error, whichever watched key resolves to undefined.
C11_NoCallbackError == CallsOf(trace, "raise") = <<>>

\* the calls of tr on the secondary demodulator, its offset or the announcement
SecondaryCalls(tr) ==
    SelectSeq(tr, LAMBDA c : c.call \in {"set_secondary_demodulator",
                                         "set_secondary_offset_freq",
                                         "write_secondary_dsp_config"})

\* C17: digimodes_enable is resolved once, at construction: a session built
\* while it resolves to a false value has no secondary_mod and no
\* secondary_offset_freq subscription, and never gets one: no later operation
\* calls set_secondary_demodulator, set_secondary_offset_freq or the
\* announcement, also after the sdr has set digimodes_enable to true.
C17_FlagAtConstruction ==
    /\ ~Truthy(source["digimodes_enable"]) =>
          (15 \notin wired /\ 16 \notin wired)
    /\ [][(15 \notin wired /\ 16 \notin wired) =>
            /\ 15 \notin wired'
            /\ 16 \notin wired'
            /\ SecondaryCalls(trace') = <<>>
            /\ dsp'.vals["secondary_mod"] = dsp.vals["secondary_mod"]
            /\ dsp'.vals["secondary_offset_freq"] = dsp.vals["secondary_offset_freq"]]_vars

\* C17 witness: on a live session built without the flag the sdr has set
\* digimodes_enable to true and setProperty("secondary_mod", 1) called nothing.
C17_Witness ==
    /\ ~stopped
    /\ 15 \notin Range(subscriptions)
    /\ source["digimodes_enable"] = 1
    /\ lastCall = Op("setProperty", "secondary_mod", 1)
    /\ local["secondary_mod"] = 1
    /\ trace = <<>>
    /\ dsp.vals["secondary_mod"] = None

\* C18: the three flags are copied into the controller at construction, from
\* the values resolved then, and no later operation changes them.
C18_FlagsCopiedOnce ==
    /\ \A k \in FlagKeys : dsp.flags[k] = source[k]
    /\ [][dsp'.flags = dsp.flags]_vars

\* C18 witness: the sdr has changed csdr_through to 0, the change has been
\* delivered, and the controller still holds the 1 copied at construction.
C18_Witness ==
    /\ source["csdr_through"] = 0
    /\ pendingEvt = NoKey
    /\ dsp.flags["csdr_through"] = 1
    /\ ~stopped

\* the keys wired to one controller setter each (dsp.py 74-86)
SyncKeys ==
    {"audio_compression", "fft_compression", "digimodes_fft_size", "samp_rate",
     "output_rate", "offset_freq", "squelch_level", "mod",
     "digital_voice_unvoiced_quality", "dmr_filter", "temporary_directory"}

\* C20: on a session that has not been stopped, once every change has been
\* delivered, the value last passed to the controller setter of each
\* single-setter key whose resolved value is defined is that resolved value.
C20_ControllerInSync ==
    (~stopped /\ pendingEvt = NoKey) =>
        \A k \in SyncKeys :
            Resolve(local, source, k) # None =>
                dsp.vals[k] = Resolve(local, source, k)

\* C20 witness: a change of samp_rate by the sdr has reached set_samp_rate.
C20_Witness ==
    /\ ~stopped
    /\ lastCall = Op("dispatch", "samp_rate", 2)
    /\ trace = <<Call("set_samp_rate", "dsp", <<2>>)>>
    /\ dsp.vals["samp_rate"] = 2

C13_OutputRouting ==
    LET route == [t \in Channels |->
                    IF t = "audio" THEN "handler.write_dsp_data"
                    ELSE IF t = "smeter" THEN "handler.write_s_meter_level"
                    ELSE IF t \in {"secondary_fft", "secondary_demod"}
                         THEN "handler.write_" \o t
                    ELSE t \o ".parse"]
        started == {c \in OutputNames : pumps[c].state # "none"}
    IN  /\ \A t \in Channels :
            /\ sinks[route[t]] = SubSeq(pumps[t].data, 1, pumps[t].pos)
            /\ pumps[t].state = "running" => ENABLED PumpCopy(t)
            /\ pumps[t].state = "ended" => pumps[t].pos = Len(pumps[t].data)
            /\ (pumps[t].state = "running" /\ pumps[t].pos = Len(pumps[t].data))
                  => ENABLED (PumpCopy(t) /\ pumps'[t].state = "ended")
            /\ (pumps[t].state = "none" /\ Cardinality(started) < MaxOutputs)
                  => ENABLED receive_output(t, MaxChunks)
        /\ \A w \in Sinks : \E t \in Channels : route[t] = w

\* two pumps at work: the meta stream has been parsed to its end while the
\* audio stream is half way
C13_Witness ==
    /\ pumps["meta"].state = "ended"
    /\ sinks["meta.parse"] = Produce("meta", MaxChunks)
    /\ pumps["audio"].state = "running"
    /\ sinks["handler.write_dsp_data"] = <<<<"audio", 1>>>>
    /\ Len(pumps["audio"].data) = MaxChunks

\* C14: receive_output with a name the table does not hold raises the lookup
\* error, starts no pump thread and changes no sink; no pump ever exists for
\* such a name and no sink ever holds a chunk of it
C14_UnknownChannel ==
    /\ [](/\ \A t \in OutputNames \ Channels : pumps[t] = NoPump
          /\ \A w \in Sinks : \A i \in 1..Len(sinks[w]) : sinks[w][i][1] \in Channels)
    /\ [][(lastCall'.op = "receive_output" /\ lastCall'.key \notin Channels)
            => /\ trace' = <<Call("raise", "KeyError", <<lastCall'.key>>)>>
               /\ pumps' = pumps
               /\ sinks' = sinks]_vars

\* the unknown name was announced while the audio pump was at work
C14_Witness ==
    /\ lastCall.op = "receive_output"
    /\ lastCall.key = "other_output"
    /\ trace = <<Call("raise", "KeyError", <<"other_output">>)>>
    /\ pumps["audio"].state = "running"
    /\ sinks["handler.write_dsp_data"] = <<<<"audio", 1>>>>
    /\ pumps["other_output"] = NoPump

C19_LocalWriteOnly ==
    [][/\ lastCall'.op = "setProperty" =>
            /\ source' = source
            /\ delivery' = delivery
            /\ pendingEvt' = pendingEvt
            /\ peers' = peers
            /\ \A p \in Peers, k \in AllKeys :
                  Resolve(peers'[p].local, source', k) = Resolve(peers[p].local, source, k)
       /\ lastCall'.op = "peer.setProperty" =>
            /\ source' = source
            /\ delivery' = delivery
            /\ pendingEvt' = pendingEvt
            /\ local' = local
            /\ dsp' = dsp
            /\ Cardinality({q \in Peers : peers'[q] # peers[q]}) <= 1
            /\ \A k \in AllKeys : Resolve(local', source', k) = Resolve(local, source, k)]_vars

\* the client of this session has set offset_freq: its controller has the
\* value, the other sessions still resolve offset_freq to undefined and
\* their controllers still hold the 0 of construction
C19_Witness ==
    /\ lastCall = Op("setProperty", "offset_freq", 1)
    /\ Resolve(local, source, "offset_freq") = 1
    /\ dsp.vals["offset_freq"] = 1
    /\ \A p \in Peers :
          /\ Resolve(peers[p].local, source, "offset_freq") = None
          /\ peers[p].dsp.vals["offset_freq"] = 0

====
